---- MODULE Spec2Model ----
(***************************************************************************)
(* btsyncw (src/main.go): read a JSON configuration file, validate it,     *)
(* derive the bind mounts and create + start one container through the     *)
(* docker daemon API.  One run of main() is modelled step by step.         *)
(*                                                                         *)
(* A Go string is a sequence of one-character strings, so that its         *)
(* characters can be inspected: "/s" is <<"/", "s">>, "" is <<>>.          *)
(* Messages that are only printed are TLA+ strings.                        *)
(***************************************************************************)
EXTENDS Integers, Sequences, FiniteSets, TLC

(***************************************************************************)
(* Bounds of the model.                                                    *)
(***************************************************************************)
\* Size of the read buffer; main.go:144 allocates 1024 bytes, scaled down.
BufSize == 3
\* Largest number of entries of Config.Folders.
MaxFolders == 2
\* Largest length of a generated folder path.
MaxPathLen == 2

\* Files are one byte longer than the buffer at most, so that truncation happens.
MaxFileLen == BufSize + 1

(***************************************************************************)
(* Strings                                                                 *)
(***************************************************************************)
BoundedSeq(S, n) == UNION {[1..k -> S] : k \in 0..n}

Min(a, b) == IF a < b THEN a ELSE b

\* strings.Split(s, sep) for a one-character separator: the pieces of s
\* between the occurrences of sep; always at least one piece.
RECURSIVE Split(_, _)
Split(s, sep) ==
    IF \E i \in 1..Len(s) : s[i] = sep
    THEN LET i == CHOOSE k \in 1..Len(s) :
                      s[k] = sep /\ \A j \in 1..(k - 1) : s[j] # sep
         IN  <<SubSeq(s, 1, i - 1)>> \o Split(SubSeq(s, i + 1, Len(s)), sep)
    ELSE <<s>>

(***************************************************************************)
(* type Config struct (main.go:26-36)                                      *)
(***************************************************************************)
ZeroConfig ==
    [Folders |-> <<>>, Storage |-> <<>>, Ip |-> <<>>, Network |-> <<>>,
     Uid |-> 0, Gid |-> 0]

\* Field values the runs are drawn from.
StorageVals == { <<>>, <<"/", "s">>, <<"'">>, <<"/", "\"">> }
IpVals      == { <<>>, <<"1">>, <<"1", "'">>, <<"\"">> }
NetworkVals == { <<>>, <<"n">>, <<"'", "n">>, <<"\"">> }
IdVals      == { 0, 1000 }
SmallPaths  == { <<"/", "a">>, <<"/", "d", "/", "b">>, <<"/", "c", "\"">> }

Configs ==
    [Folders : BoundedSeq(SmallPaths, MaxFolders), Storage : StorageVals,
     Ip : IpVals, Network : NetworkVals, Uid : IdVals, Gid : IdVals]

\* Configurations with many folder paths, the other fields fixed but for Uid.
PathChars == { "a", "/" }
Paths ==
    BoundedSeq(PathChars, MaxPathLen)
        \cup { <<"a", "/", "a">>, <<"/", "a", "/", "a">>, <<"a", "'">> }
PathConfigs ==
    [Folders : BoundedSeq(Paths, MaxFolders), Storage : { <<"/", "s">> },
     Ip : { <<>> }, Network : { <<"n">> }, Uid : IdVals, Gid : { 1000 }]

\* A valid, an invalid and a networked configuration.
FewConfigs ==
    { [ZeroConfig EXCEPT !.Storage = <<"/", "s">>, !.Uid = 1000, !.Gid = 1000],
      [ZeroConfig EXCEPT !.Storage = <<"/", "s">>, !.Uid = 1000],
      [ZeroConfig EXCEPT !.Storage = <<"/", "s">>, !.Uid = 1000, !.Gid = 1000,
                         !.Ip = <<"1">>, !.Network = <<"n">>,
                         !.Folders = << <<"/", "a">> >>] }

(***************************************************************************)
(* The configuration file.  A byte of the file is one of: NUL, a newline,  *)
(* a space, an opening brace, a closing brace, or MEMBERS, which stands    *)
(* for the text of the object's members ("Storage": ..., "Uid": ...).      *)
(* What that text denotes is the Configuration doc.                        *)
(***************************************************************************)
NUL == "NUL"
NL == "NL"
SP == "SP"
LB == "{"
RB == "}"
MEMBERS == "members"
Bytes == { NUL, NL, SP, LB, RB, MEMBERS }

AllFiles == BoundedSeq(Bytes, MaxFileLen)
SmallFiles ==
    { <<>>, <<LB, MEMBERS, RB>>, <<LB, RB>>, <<LB, MEMBERS>>, <<NUL, LB, RB, RB>> }
OneFile == { <<LB, MEMBERS, RB>> }

\* JSON whitespace (encoding/json's isSpace): NUL is not whitespace.
IsSpace(b) == b \in { SP, NL }

RECURSIVE Tokens(_)
Tokens(b) ==
    IF b = <<>> THEN <<>>
    ELSE IF IsSpace(Head(b)) THEN Tokens(Tail(b))
    ELSE <<Head(b)>> \o Tokens(Tail(b))

\* json.Unmarshal succeeds on an object, with or without members, surrounded
\* by any amount of whitespace.
JsonValid(b) == Tokens(b) \in { <<LB, RB>>, <<LB, MEMBERS, RB>> }

\* The Config json.Unmarshal fills in: an empty object leaves the zero value.
Decode(b, d) == IF Tokens(b) = <<LB, MEMBERS, RB>> THEN d ELSE ZeroConfig

(***************************************************************************)
(* Messages                                                                *)
(***************************************************************************)
Nil == "nil"
Unset == "unset"
ErrStorageRequired == "'Storage' field is required"
ErrInjStorage == "Possible Commandline Injection found in 'Storage'"
ErrIpNeedsNetwork == "The field 'Ip' requires 'Network'"
ErrInjIp == "Possible Commandline Injection found in 'Ip'"
ErrInjNetwork == "Possible Commandline Injection found in 'Network'"
ErrInjFolders == "Possible Commandline Injection found in 'Folders'"
ErrIdsRequired == "Field the fields 'Uid' and 'Gid' are required"

MsgUsage == "Usage: btsyncw <config>"
MsgOpen == "Failed to open file"
MsgRead == "Could not read the file"
MsgParse == "Failed to parse JSON"
MsgConnect == "Failed to connect to docker"
MsgCreate == "Failed to create container"
MsgStart == "Failed to start container"
MsgStarted == "Started the Resilio Container"

DockerImage == <<"s", "y", "n", "c">>
DockerImageTag == <<"s", "l", "i", "m">>
ContainerName == "Sync"
ContainerIds == { "id1", "id2" }

(***************************************************************************)
(* The pure functions of main.go                                           *)
(***************************************************************************)
detectOnlyDoubleQuote(input) ==
    \E i \in 1..Len(input) : input[i] = "\""

\* The regular expression ("|') matches somewhere in input.
detectCmdInjection(input) ==
    \E i \in 1..Len(input) : input[i] = "\"" \/ input[i] = "'"

\* strconv.FormatInt(n, 10) for the ids of the model.
RECURSIVE FormatInt(_)
FormatInt(n) ==
    LET digit == <<"0", "1", "2", "3", "4", "5", "6", "7", "8", "9">>
    IN  IF n < 10 THEN <<digit[n + 1]>>
        ELSE FormatInt(n \div 10) \o <<digit[(n % 10) + 1]>>

buildEnvVars(cfg) ==
    << <<"U", "S", "E", "R", "I", "D", "=">> \o FormatInt(cfg.Uid),
       <<"G", "R", "O", "U", "P", "I", "D", "=">> \o FormatInt(cfg.Gid) >>

NoEndpoints == <<>>

buildNetConfigIpOnly(cfg) ==
    IF cfg.Ip # <<>>
    THEN [EndpointsConfig |-> (cfg.Network :> [IPAddress |-> cfg.Ip])]
    ELSE [EndpointsConfig |-> NoEndpoints]

buildNetConfig(cfg) ==
    IF cfg.Ip # <<>> /\ cfg.Network # <<>>
    THEN [EndpointsConfig |-> (cfg.Network :> [IPAddress |-> cfg.Ip])]
    ELSE [EndpointsConfig |-> NoEndpoints]

buildHostConfig(cfg, m) ==
    [Mounts |-> m, AutoRemove |-> TRUE,
     NetworkMode |-> IF cfg.Network # <<>> THEN cfg.Network ELSE <<>>]

buildContainerConfig(cfg) ==
    [Image |-> DockerImage \o <<":">> \o DockerImageTag, Env |-> buildEnvVars(cfg)]

validateConfigIpQuoteFirst(cfg) ==
    IF cfg.Storage = <<>> THEN ErrStorageRequired
    ELSE IF detectCmdInjection(cfg.Storage) THEN ErrInjStorage
    ELSE IF detectCmdInjection(cfg.Ip) THEN ErrInjIp
    ELSE IF cfg.Ip # <<>> /\ cfg.Network = <<>> THEN ErrIpNeedsNetwork
    ELSE IF detectCmdInjection(cfg.Network) THEN ErrInjNetwork
    ELSE IF \E i \in 1..Len(cfg.Folders) : detectCmdInjection(cfg.Folders[i])
         THEN ErrInjFolders
    ELSE IF cfg.Uid = 0 \/ cfg.Gid = 0 THEN ErrIdsRequired
    ELSE Nil

validateConfigNoNetworkRule(cfg) ==
    IF cfg.Storage = <<>> THEN ErrStorageRequired
    ELSE IF detectCmdInjection(cfg.Storage) THEN ErrInjStorage
    ELSE IF detectCmdInjection(cfg.Ip) THEN ErrInjIp
    ELSE IF detectCmdInjection(cfg.Network) THEN ErrInjNetwork
    ELSE IF \E i \in 1..Len(cfg.Folders) : detectCmdInjection(cfg.Folders[i])
         THEN ErrInjFolders
    ELSE IF cfg.Uid = 0 \/ cfg.Gid = 0 THEN ErrIdsRequired
    ELSE Nil

validateConfigGidUnchecked(cfg) ==
    IF cfg.Storage = <<>> THEN ErrStorageRequired
    ELSE IF detectCmdInjection(cfg.Storage) THEN ErrInjStorage
    ELSE IF cfg.Ip # <<>> /\ cfg.Network = <<>> THEN ErrIpNeedsNetwork
    ELSE IF detectCmdInjection(cfg.Ip) THEN ErrInjIp
    ELSE IF detectCmdInjection(cfg.Network) THEN ErrInjNetwork
    ELSE IF \E i \in 1..Len(cfg.Folders) : detectCmdInjection(cfg.Folders[i])
         THEN ErrInjFolders
    ELSE IF cfg.Uid = 0 THEN ErrIdsRequired
    ELSE Nil

\* validateConfig: Nil, or the error of the first check that fails.
validateConfig(cfg) ==
    IF cfg.Storage = <<>> THEN ErrStorageRequired
    ELSE IF detectCmdInjection(cfg.Storage) THEN ErrInjStorage
    ELSE IF cfg.Ip # <<>> /\ cfg.Network = <<>> THEN ErrIpNeedsNetwork
    ELSE IF detectCmdInjection(cfg.Ip) THEN ErrInjIp
    ELSE IF detectCmdInjection(cfg.Network) THEN ErrInjNetwork
    ELSE IF \E i \in 1..Len(cfg.Folders) : detectCmdInjection(cfg.Folders[i])
         THEN ErrInjFolders
    ELSE IF cfg.Uid = 0 \/ cfg.Gid = 0 THEN ErrIdsRequired
    ELSE Nil

TypeBind == "bind"
FoldersTarget == <<"/", "m", "n", "t", "/", "f", "o", "l", "d", "e", "r", "s", "/">>
ConfigTarget == <<"/", "m", "n", "t", "/", "c", "o", "n", "f", "i", "g">>

dirnameFirstPiece(path) ==
    LET splitPath == Split(path, "/") IN splitPath[1]

\* main.go:175-176: the last piece of the path split at "/".
dirname(path) ==
    LET splitPath == Split(path, "/") IN splitPath[Len(splitPath)]

\* main.go:172-189: one mount per folder, then the storage mount.
deriveMounts(cfg) ==
    [fi \in 1..Len(cfg.Folders) |->
        [Type |-> TypeBind, Source |-> cfg.Folders[fi],
         Target |-> FoldersTarget \o dirname(cfg.Folders[fi])]]
    \o << [Type |-> TypeBind, Source |-> cfg.Storage, Target |-> ConfigTarget] >>

NulKept(b) == b

\* main.go:151-155: every NUL of the buffer becomes a space.
NulToSpace(b) == [i \in 1..Len(b) |-> IF b[i] = NUL THEN SP ELSE b[i]]

\* make([]byte, n): n zero bytes.
MakeBytes(n) == [i \in 1..n |-> NUL]

\* One file.Read(buf) on a regular file: the first Min(Len(f), Len(b)) bytes
\* of the file overwrite the start of the buffer.
ReadInto(b, f) ==
    [i \in 1..Len(b) |-> IF i <= Len(f) THEN f[i] ELSE b[i]]

(***************************************************************************)
(* State                                                                   *)
(***************************************************************************)
VARIABLES
    pc,           \* the statement of main() reached, "done" after the exit
    argc,         \* len(os.Args[1:])
    file,         \* the bytes of the file named by os.Args[1]
    doc,          \* the Configuration the members of the file denote
    buf,          \* the read buffer
    c,            \* var c Config
    verr,         \* the result of validateConfig(&c), Unset before the call
    mounts,       \* the derived mounts
    cli,          \* whether the daemon client exists
    configs,      \* containerConfig, hostConfig, netConfig once built
    calls,        \* the remote steps issued so far, with their results
    resp,         \* resp.ID of the create call
    stdout,       \* the lines printed
    exitStatus,   \* the exit status, -1 while running
    log           \* the steps taken so far and whether each succeeded

vars ==
    <<pc, argc, file, doc, buf, c, verr, mounts, cli, configs, calls, resp,
      stdout, exitStatus, log>>

NoConfigs == [built |-> FALSE]
NoResp == "none"
Running == -1

Took(step, ok) == Append(log, [step |-> step, ok |-> ok])

\* fmt.Println/Printf(msg); os.Exit(1) after the failure of step.
Exit1(step, msg) ==
    /\ pc' = "done"
    /\ exitStatus' = 1
    /\ stdout' = Append(stdout, msg)
    /\ log' = Took(step, FALSE)

Goto(step, next) ==
    /\ pc' = next
    /\ log' = Took(step, TRUE)
    /\ UNCHANGED <<stdout, exitStatus>>

\* The process at its start, on a file with bytes f denoting d.
Start0(f, d) ==
    /\ pc = "args"
    /\ file = f
    /\ doc = d
    /\ buf = <<>>
    /\ c = ZeroConfig
    /\ verr = Unset
    /\ mounts = <<>>
    /\ cli = FALSE
    /\ configs = NoConfigs
    /\ calls = <<>>
    /\ resp = NoResp
    /\ stdout = <<>>
    /\ exitStatus = Running
    /\ log = <<>>

\* Without exactly one argument no file is looked at.
World(files, docs) ==
    \/ /\ argc \in {0, 2}
       /\ Start0(<<>>, ZeroConfig)
    \/ /\ argc = 1
       /\ \E f \in files, d \in docs : Start0(f, d)

Init == World(SmallFiles, Configs)

(***************************************************************************)
(* The steps of main()                                                     *)
(***************************************************************************)
\* main.go:131-134
CheckArgs ==
    /\ pc = "args"
    /\ IF argc # 1 THEN Exit1("args", MsgUsage) ELSE Goto("args", "open")
    /\ UNCHANGED <<argc, file, doc, buf, c, verr, mounts, cli, configs, calls, resp>>

\* main.go:137-141
Open ==
    /\ pc = "open"
    /\ \E ok \in BOOLEAN :
          IF ok THEN Goto("open", "read") ELSE Exit1("open", MsgOpen)
    /\ UNCHANGED <<argc, file, doc, buf, c, verr, mounts, cli, configs, calls, resp>>

\* main.go:144-149: an I/O error, or io.EOF on an empty file, ends the run.
Read ==
    /\ pc = "read"
    /\ \E ok \in BOOLEAN :
          IF ok /\ Len(file) > 0
          THEN /\ buf' = ReadInto(MakeBytes(BufSize), file)
               /\ Goto("read", "replace")
          ELSE /\ buf' = MakeBytes(BufSize)
               /\ Exit1("read", MsgRead)
    /\ UNCHANGED <<argc, file, doc, c, verr, mounts, cli, configs, calls, resp>>

\* main.go:151-155
ReplaceNul ==
    /\ pc = "replace"
    /\ buf' = NulToSpace(buf)
    /\ pc' = "parse"
    /\ UNCHANGED <<argc, file, doc, c, verr, mounts, cli, configs, calls, resp,
                   stdout, exitStatus, log>>

\* main.go:158-163
Parse ==
    /\ pc = "parse"
    /\ IF JsonValid(buf)
       THEN /\ c' = Decode(buf, doc)
            /\ Goto("parse", "validate")
       ELSE /\ c' = c
            /\ Exit1("parse", MsgParse)
    /\ UNCHANGED <<argc, file, doc, buf, verr, mounts, cli, configs, calls, resp>>

ValidateIgnoringError ==
    /\ pc = "validate"
    /\ verr' = validateConfig(c)
    /\ Goto("validate", "mounts")
    /\ UNCHANGED <<argc, file, doc, buf, c, mounts, cli, configs, calls, resp>>

\* main.go:166-169
Validate ==
    /\ pc = "validate"
    /\ verr' = validateConfig(c)
    /\ IF verr' # Nil THEN Exit1("validate", verr') ELSE Goto("validate", "mounts")
    /\ UNCHANGED <<argc, file, doc, buf, c, mounts, cli, configs, calls, resp>>

\* main.go:172-189
DeriveMounts ==
    /\ pc = "mounts"
    /\ mounts' = deriveMounts(c)
    /\ pc' = "connect"
    /\ UNCHANGED <<argc, file, doc, buf, c, verr, cli, configs, calls, resp,
                   stdout, exitStatus, log>>

\* main.go:192-197
Connect ==
    /\ pc = "connect"
    /\ \E ok \in BOOLEAN :
          /\ calls' = Append(calls, [op |-> "connect", ok |-> ok])
          /\ cli' = ok
          /\ IF ok THEN Goto("connect", "build") ELSE Exit1("connect", MsgConnect)
    /\ UNCHANGED <<argc, file, doc, buf, c, verr, mounts, configs, resp>>

\* main.go:200-202
BuildConfigs ==
    /\ pc = "build"
    /\ configs' = [built |-> TRUE,
                   containerConfig |-> buildContainerConfig(c),
                   hostConfig |-> buildHostConfig(c, mounts),
                   netConfig |-> buildNetConfig(c)]
    /\ pc' = "create"
    /\ UNCHANGED <<argc, file, doc, buf, c, verr, mounts, cli, calls, resp,
                   stdout, exitStatus, log>>

CreateCall(ok) ==
    [op |-> "create", ok |-> ok, name |-> ContainerName,
     containerConfig |-> configs.containerConfig,
     hostConfig |-> configs.hostConfig,
     netConfig |-> configs.netConfig]

CreateWithoutAbort ==
    /\ pc = "create"
    /\ \E ok \in BOOLEAN, id \in ContainerIds :
          /\ calls' = Append(calls, CreateCall(ok))
          /\ resp' = IF ok THEN id ELSE NoResp
          /\ Goto("create", "start")
    /\ UNCHANGED <<argc, file, doc, buf, c, verr, mounts, cli, configs>>

\* main.go:205-209
Create ==
    /\ pc = "create"
    /\ \E ok \in BOOLEAN, id \in ContainerIds :
          /\ calls' = Append(calls, CreateCall(ok))
          /\ resp' = IF ok THEN id ELSE NoResp
          /\ IF ok THEN Goto("create", "start") ELSE Exit1("create", MsgCreate)
    /\ UNCHANGED <<argc, file, doc, buf, c, verr, mounts, cli, configs>>

StartIgnoringError ==
    /\ pc = "start"
    /\ \E ok \in BOOLEAN :
          /\ calls' = Append(calls, [op |-> "start", ok |-> ok, id |-> resp])
          /\ pc' = "finish"
          /\ log' = Took("start", ok)
          /\ stdout' = IF ok THEN stdout ELSE Append(stdout, MsgStart)
          /\ UNCHANGED exitStatus
    /\ UNCHANGED <<argc, file, doc, buf, c, verr, mounts, cli, configs, resp>>

\* main.go:212-215
Start ==
    /\ pc = "start"
    /\ \E ok \in BOOLEAN :
          /\ calls' = Append(calls, [op |-> "start", ok |-> ok, id |-> resp])
          /\ IF ok THEN Goto("start", "finish") ELSE Exit1("start", MsgStart)
    /\ UNCHANGED <<argc, file, doc, buf, c, verr, mounts, cli, configs, resp>>

\* main.go:218-219: the confirmation, then main returns.
Finish ==
    /\ pc = "finish"
    /\ stdout' = Append(stdout, MsgStarted)
    /\ exitStatus' = 0
    /\ pc' = "done"
    /\ UNCHANGED <<argc, file, doc, buf, c, verr, mounts, cli, configs, calls,
                   resp, log>>

Next ==
    \/ CheckArgs
    \/ Open
    \/ Read
    \/ ReplaceNul
    \/ Parse
    \/ Validate
    \/ DeriveMounts
    \/ Connect
    \/ BuildConfigs
    \/ Create
    \/ Start
    \/ Finish

Spec == Init /\ [][Next]_vars

\* The run on every file of the model, with a few configurations.
InitLoader == World(AllFiles, FewConfigs)
SpecLoader == InitLoader /\ [][Next]_vars

\* The run on configurations with many folder paths.
InitMounts == World(OneFile, PathConfigs)
SpecMounts == InitMounts /\ [][Next]_vars

\* main() is sequential and every call it makes is awaited to completion, so
\* a run that can take its next step takes it.
FairSpec == Spec /\ WF_vars(Next)

(***************************************************************************)
(* Properties                                                              *)
(***************************************************************************)
QuoteChars == { "'", "\"" }
HasQuote(s) == \E i \in DOMAIN s : s[i] \in QuoteChars
AnyQuote(cfg) ==
    \/ HasQuote(cfg.Storage)
    \/ HasQuote(cfg.Ip)
    \/ HasQuote(cfg.Network)
    \/ \E i \in DOMAIN cfg.Folders : HasQuote(cfg.Folders[i])
InjectionErrors == { ErrInjStorage, ErrInjIp, ErrInjNetwork, ErrInjFolders }

Validated == verr # Unset
Issued(op) == \E i \in DOMAIN calls : calls[i].op = op
Succeeded(step) == \E i \in DOMAIN log : log[i].step = step /\ log[i].ok
Failed(step) == \E i \in DOMAIN log : log[i].step = step /\ ~log[i].ok

\* C1: when validateConfig returns a failure, no launch step is ever
\* performed in the run: the daemon client is not created, no connect,
\* create or start call is issued, and the run has ended with exit status 1.
C1_NoLaunchAfterInvalid ==
    (Validated /\ verr # Nil) =>
        /\ ~cli
        /\ calls = <<>>
        /\ configs = NoConfigs
        /\ pc = "done"
        /\ exitStatus = 1

C1_Witness ==
    /\ Validated
    /\ verr # Nil
    /\ pc = "done"
    /\ exitStatus = 1

\* The rules of validateConfig in the order the claim lists them, rule 4
\* being split into its Ip part (4) and its Network part (5).
RuleViolated(i, cfg) ==
    CASE i = 1 -> cfg.Storage = <<>>
      [] i = 2 -> HasQuote(cfg.Storage)
      [] i = 3 -> cfg.Ip # <<>> /\ cfg.Network = <<>>
      [] i = 4 -> HasQuote(cfg.Ip)
      [] i = 5 -> HasQuote(cfg.Network)
      [] i = 6 -> \E k \in DOMAIN cfg.Folders : HasQuote(cfg.Folders[k])
      [] i = 7 -> cfg.Uid = 0 \/ cfg.Gid = 0
RuleError ==
    <<ErrStorageRequired, ErrInjStorage, ErrIpNeedsNetwork, ErrInjIp,
      ErrInjNetwork, ErrInjFolders, ErrIdsRequired>>
Rules == DOMAIN RuleError

\* C2: validateConfig returns the outcome of the first violated rule in the
\* order Storage set, Storage quote-free, Ip needs Network, Ip quote-free,
\* Network quote-free, folders quote-free, Uid and Gid non-zero; it returns
\* success only when no rule is violated.
C2_FirstViolatedRuleWins ==
    Validated =>
        /\ (verr = Nil) <=> (\A i \in Rules : ~RuleViolated(i, c))
        /\ \A i \in Rules :
              (RuleViolated(i, c) /\ \A j \in 1..(i - 1) : ~RuleViolated(j, c))
                  => verr = RuleError[i]

\* Two rules are violated and the earlier one is reported.
C2_Witness ==
    /\ Validated
    /\ RuleViolated(3, c)
    /\ RuleViolated(4, c)
    /\ RuleViolated(7, c)
    /\ verr = ErrIpNeedsNetwork

\* C3 as claimed: a quote character in Storage, Ip, Network or a folder
\* makes validateConfig fail with an injection-detected outcome, whatever
\* the other fields hold.
C3_AsClaimed ==
    (Validated /\ AnyQuote(c)) => verr \in InjectionErrors

\* Whether a rule that comes before every quote check that can fire fails.
EarlierRuleFails(cfg) ==
    \/ cfg.Storage = <<>>
    \/ ~HasQuote(cfg.Storage) /\ cfg.Ip # <<>> /\ cfg.Network = <<>>

\* C3 (amended): a quote character in Storage, Ip, Network or a folder makes
\* validateConfig fail; the failure is injection-detected unless Storage is
\* empty (Storage required is reported) or Storage is quote-free with Ip set
\* and Network empty (Ip requires Network is reported).
C3_QuoteRejected ==
    (Validated /\ AnyQuote(c)) =>
        /\ verr # Nil
        /\ ~EarlierRuleFails(c) => verr \in InjectionErrors
        /\ c.Storage = <<>> => verr = ErrStorageRequired
        /\ (c.Storage # <<>> /\ EarlierRuleFails(c)) => verr = ErrIpNeedsNetwork

C3_Witness ==
    /\ Validated
    /\ HasQuote(c.Network)
    /\ \E i \in DOMAIN c.Network : c.Network[i] = "'"
    /\ ~HasQuote(c.Storage)
    /\ ~HasQuote(c.Ip)
    /\ verr = ErrInjNetwork

\* C4 as claimed: Ip non-empty with Network empty makes validateConfig fail
\* with "The field 'Ip' requires 'Network'", whatever the other fields hold.
C4_AsClaimed ==
    (Validated /\ c.Ip # <<>> /\ c.Network = <<>>) => verr = ErrIpNeedsNetwork

\* C4 (amended): Ip non-empty with Network empty makes validateConfig fail;
\* the failure is "The field 'Ip' requires 'Network'" when Storage is
\* non-empty and quote-free, and the Storage failure otherwise.
C4_IpRequiresNetwork ==
    (Validated /\ c.Ip # <<>> /\ c.Network = <<>>) =>
        /\ verr # Nil
        /\ (c.Storage # <<>> /\ ~HasQuote(c.Storage)) => verr = ErrIpNeedsNetwork
        /\ c.Storage = <<>> => verr = ErrStorageRequired
        /\ HasQuote(c.Storage) => verr = ErrInjStorage

C4_Witness ==
    /\ Validated
    /\ c.Ip # <<>>
    /\ c.Network = <<>>
    /\ HasQuote(c.Ip)
    /\ c.Storage # <<>>
    /\ verr = ErrIpNeedsNetwork

MountsDerived == Succeeded("validate") /\ pc # "mounts"

\* seg is what follows the last "/" of path, or all of path without a "/".
IsLastSegment(seg, path) ==
    /\ Len(seg) <= Len(path)
    /\ seg = SubSeq(path, Len(path) - Len(seg) + 1, Len(path))
    /\ \A i \in DOMAIN seg : seg[i] # "/"
    /\ Len(seg) = Len(path) \/ path[Len(path) - Len(seg)] = "/"

\* C5: a valid Configuration with n folders yields exactly n+1 bind mounts:
\* mount i has source Folders[i] unchanged and target "/mnt/folders/" followed
\* by the last "/"-separated segment of Folders[i], in folder order; the last
\* mount has source Storage and target "/mnt/config".
C5_MountSequence ==
    MountsDerived =>
        LET n == Len(c.Folders) IN
        /\ Len(mounts) = n + 1
        /\ \A i \in 1..(n + 1) : mounts[i].Type = TypeBind
        /\ \A i \in 1..n :
              /\ mounts[i].Source = c.Folders[i]
              /\ Len(mounts[i].Target) >= Len(FoldersTarget)
              /\ SubSeq(mounts[i].Target, 1, Len(FoldersTarget)) = FoldersTarget
              /\ IsLastSegment(
                     SubSeq(mounts[i].Target, Len(FoldersTarget) + 1,
                            Len(mounts[i].Target)),
                     c.Folders[i])
        /\ mounts[n + 1].Source = c.Storage
        /\ mounts[n + 1].Target = ConfigTarget

\* Two folders, the first with a segment behind a non-empty directory part.
C5_Witness ==
    /\ MountsDerived
    /\ Len(c.Folders) = 2
    /\ c.Folders[1] = <<"/", "a", "/", "a">>
    /\ c.Folders[2] = <<"a", "/">>
    /\ Len(mounts) = 3
    /\ mounts[1].Target = FoldersTarget \o <<"a">>
    /\ mounts[2].Target = FoldersTarget

RemoteOrder == <<"connect", "create", "start">>

\* C6: the remote steps issued are a prefix of connect, create, start, each
\* at most once; create only after connect succeeded; start only after
\* create succeeded and on the container create returned; after a failing
\* step no further remote call is issued.
C6_RemoteStepsPrefix ==
    /\ Len(calls) <= Len(RemoteOrder)
    /\ \A i \in DOMAIN calls :
          /\ calls[i].op = RemoteOrder[i]
          /\ ~calls[i].ok => i = Len(calls)
          /\ i > 1 => calls[i - 1].ok
    /\ Issued("create") => (cli /\ Succeeded("connect"))
    /\ Issued("start") =>
          /\ Succeeded("create")
          /\ resp \in ContainerIds
          /\ calls[3].id = resp
    /\ (\E i \in DOMAIN calls : ~calls[i].ok) => pc = "done"

\* The create call failed and the run is over with two calls issued.
C6_Witness ==
    /\ Len(calls) = 2
    /\ calls[1].ok
    /\ ~calls[2].ok
    /\ pc = "done"

AllSteps ==
    { "args", "open", "read", "parse", "validate", "connect", "create", "start" }

C7_ExitStatus ==
    /\ exitStatus \in { Running, 0, 1 }
    /\ (pc = "done") <=> (exitStatus # Running)
    /\ (exitStatus = 0) <=> (pc = "done" /\ \A s \in AllSteps : Succeeded(s))
    /\ exitStatus = 0 =>
          /\ argc = 1
          /\ stdout = <<MsgStarted>>
    /\ \A i \in DOMAIN log :
          ~log[i].ok =>
              /\ i = Len(log)
              /\ log[i].step \in AllSteps
              /\ pc = "done"
              /\ exitStatus = 1
              /\ Len(stdout) = 1
              /\ stdout[1] # MsgStarted

\* C7: every run terminates, with exit status 0 or 1; the status is 0, after
\* the confirmation message, exactly when the argument count, open, read,
\* parse, validation, connect, create and start steps all succeeded; a
\* failing step ends the run with status 1 at that step, without the
\* confirmation message.
C7_TerminatesWithStatus == []C7_ExitStatus /\ <>(pc = "done")

C7_Witness ==
    /\ pc = "done"
    /\ exitStatus = 0
    /\ stdout = <<MsgStarted>>
    /\ Len(c.Folders) = 2

\* The data-model invariant of a Configuration.
DataModelInvariant(cfg) ==
    /\ cfg.Storage # <<>>
    /\ cfg.Ip # <<>> => cfg.Network # <<>>
    /\ cfg.Uid # 0
    /\ cfg.Gid # 0
    /\ ~AnyQuote(cfg)

C8_CreateOnValid == Issued("create") => DataModelInvariant(c)

\* C8: whenever the create call has been issued the Configuration in use
\* satisfies the data-model invariant, and the Configuration is not modified
\* from validation to the end of the run.
C8_ValidAndReadOnly ==
    /\ []C8_CreateOnValid
    /\ [][(pc = "validate" \/ Validated) => c' = c]_vars

C8_Witness ==
    /\ Issued("create")
    /\ c.Ip # <<>>
    /\ c.Folders # <<>>
    /\ pc = "done"

BufferRead == pc = "parse" \/ Succeeded("parse") \/ Failed("parse")

\* The file with each NUL replaced by byte b.
NulAs(b, f) == [i \in DOMAIN f |-> IF f[i] = NUL THEN b ELSE f[i]]

\* C9: the loader replaces every NUL of the read buffer by a space and
\* changes no other byte, so the parsed input of a file no longer than the
\* buffer is the file with each NUL replaced by a space, followed only by
\* spaces; a file that is valid JSON but for NULs in place of newlines
\* parses successfully.
C9_NulBecomesSpace ==
    /\ BufferRead =>
          /\ Len(buf) = BufSize
          /\ \A i \in 1..Min(Len(file), BufSize) :
                buf[i] = IF file[i] = NUL THEN SP ELSE file[i]
          /\ \A i \in (Len(file) + 1)..BufSize : buf[i] = SP
    /\ (Len(file) <= BufSize /\ JsonValid(NulAs(NL, file))) => ~Failed("parse")

\* A file with a NUL between its tokens was read, rewritten and parsed.
C9_Witness ==
    /\ file = <<LB, NUL, RB>>
    /\ buf = <<LB, SP, RB>>
    /\ Succeeded("parse")

Endpoints(net) == DOMAIN net.EndpointsConfig

\* What C10 states of the records built from cfg and the mounts m.
BuiltAsClaimed(cfg, m, host, net) ==
    /\ (host.NetworkMode # <<>>) <=> (cfg.Network # <<>>)
    /\ cfg.Network # <<>> => host.NetworkMode = cfg.Network
    /\ (Endpoints(net) # {}) <=> (cfg.Ip # <<>> /\ cfg.Network # <<>>)
    /\ Endpoints(net) # {} =>
          /\ Endpoints(net) = { cfg.Network }
          /\ net.EndpointsConfig[cfg.Network] = [IPAddress |-> cfg.Ip]
    /\ host.AutoRemove
    /\ host.Mounts = m

\* C10: the host config carries a network mode exactly when Network is set
\* (and it equals Network); the network config carries one endpoint, keyed by
\* Network with IP address Ip, exactly when Ip and Network are both set; so a
\* validated Configuration passes an endpoint IP to the create call exactly
\* when Ip is set, with auto-remove set and the derived mounts unchanged.
C10_NetworkSettings ==
    /\ BuiltAsClaimed(c, mounts, buildHostConfig(c, mounts), buildNetConfig(c))
    /\ \A i \in DOMAIN calls :
          calls[i].op = "create" =>
              /\ BuiltAsClaimed(c, mounts, calls[i].hostConfig, calls[i].netConfig)
              /\ (Endpoints(calls[i].netConfig) # {}) <=> (c.Ip # <<>>)
              /\ calls[i].hostConfig.Mounts = deriveMounts(c)

C10_Witness ==
    /\ Issued("create")
    /\ c.Ip = <<"1">>
    /\ calls[2].netConfig.EndpointsConfig[<<"n">>].IPAddress = <<"1">>
    /\ calls[2].hostConfig.NetworkMode = <<"n">>

====
